---- MODULE Spec2Model ----
(***************************************************************************)
(* A model of nugget/devicemanagement/device_manager.py: the DeviceManager *)
(* (device registry, current-device selection, eligibility) and the two    *)
(* restore operations apply_changes and reset_mobilegestalt.               *)
(*                                                                         *)
(* Every handler is one action.  The variables in the first group are the  *)
(* fields of DeviceManager and of its DataSingleton plus the module-level  *)
(* tweak catalog; the variables in the second group record what the last   *)
(* call did to its collaborators (discovery, dialogs, the progress         *)
(* callback, the restore channel) and how it ended.                        *)
(***************************************************************************)
EXTENDS Integers, Sequences, FiniteSets, TLC

VARIABLES
    devices,               \* DeviceManager.devices: list[Device]
    current_device_index,  \* DeviceManager.current_device_index
    apply_over_wifi,       \* DeviceManager.apply_over_wifi
    current_device,        \* data_singleton.current_device (None or a Device)
    device_available,      \* data_singleton.device_available
    gestalt_path,          \* data_singleton.gestalt_path (None or a path)
    tweaks,                \* tweaks.tweaks: the ordered tweak catalog
    last_call,             \* the handler that ran last
    raised,                \* the exception that escaped it ("none": it returned)
    connected_devices,     \* what usbmux.list_devices() returned to it, and the
                           \* outcome of each session it tried to open
    error_msgs,            \* its show_error_msg(txt) dialogs, in order, each with the
                           \* UUID of the ERROR line printed before it (0: a traceback)
    labels,                \* its update_label(...) calls, in order
    invoked,               \* the catalog positions whose apply_tweak it called
    merged,                \* its resetting argument and the documents it merged
    files_to_restore,      \* the payload list it built
    restore_calls,         \* its calls of restore_files(...), each with its result
                           \* and the number of labels shown before it
    dialogs,               \* the other message boxes it opened
    previous               \* what the handler before it was called with and built

vars == << devices, current_device_index, apply_over_wifi, current_device,
           device_available, gestalt_path, tweaks, last_call, raised,
           connected_devices, error_msgs, labels, invoked, merged,
           files_to_restore, restore_calls, dialogs, previous >>

\* Python's None, for a path, for a Device and for an index.
None == "None"

NoneDevice == [uuid |-> 0, version |-> << >>, ld |-> 0]

NoneIndex == -1

-----------------------------------------------------------------------------
(* Bounds of the model.                                                    *)

MaxDevices == 3     \* serial numbers, and the longest discovery result
MaxTweaks == 3      \* longest tweak catalog
MaxMsgLen == 3      \* longest restore-channel error message, in tokens

-----------------------------------------------------------------------------
(* Devices and versions.                                                   *)

Serial == 1 .. MaxDevices

\* The ProductVersion each device reports, already split at the dots.
ProductVersions == << <<16, 7>>, <<17>>, <<17, 10>>, <<18, 1>>, <<9, 3>> >>

ProductVersion(serial) == ProductVersions[((serial - 1) % Len(ProductVersions)) + 1]

\* Version.__lt__: component-wise numeric comparison, a missing component is 0.
Component(v, i) == IF i <= Len(v) THEN v[i] ELSE 0

RECURSIVE VersionLessFrom(_, _, _)
VersionLessFrom(a, b, i) ==
    IF i > Len(a) /\ i > Len(b) THEN FALSE
    ELSE IF Component(a, i) < Component(b, i) THEN TRUE
    ELSE IF Component(a, i) > Component(b, i) THEN FALSE
    ELSE VersionLessFrom(a, b, i + 1)

VersionLess(a, b) == VersionLessFrom(a, b, 1)

\* DeviceManager.min_version = Version("17")
min_version == <<17>>

\* Device(uuid=device.serial, ..., version=vals['ProductVersion'], ..., ld=ld)
Device(serial) == [uuid |-> serial, version |-> ProductVersion(serial), ld |-> serial]

-----------------------------------------------------------------------------
(* Discovery results: usbmux.list_devices() gives distinct devices, here  *)
(* in the order of their serial numbers; each is attached over USB or      *)
(* reached over Wi-Fi, and opening its lockdown session succeeds or raises.*)

Connected == [serial : Serial, is_usb : BOOLEAN, opens : BOOLEAN]

Discovery ==
    UNION { { c \in [1 .. k -> Connected] :
                \A i \in 1 .. k - 1 : c[i].serial < c[i + 1].serial }
            : k \in 0 .. MaxDevices }

\* At most one device, attached over USB, whose session opens.
SingleDiscovery ==
    { c \in Discovery : Len(c) <= 1 /\ \A i \in 1 .. Len(c) : c[i].is_usb /\ c[i].opens }

\* Any number of devices, all attached over USB with sessions that open.
OpenedDiscovery ==
    { c \in Discovery : \A i \in 1 .. Len(c) : c[i].is_usb /\ c[i].opens }

SessionErrorName == "ConnectionFailedError"

IndexErrorName == "IndexError"

-----------------------------------------------------------------------------
(* set_current_device(index): the DataSingleton fields and the index after *)
(* the call on the registry devs; it raises IndexError, before any         *)
(* assignment, when devs has no entry at index (0-based).                  *)

Selection == [ current_device |-> current_device,
               device_available |-> device_available,
               gestalt_path |-> gestalt_path,
               current_device_index |-> current_device_index,
               raised |-> "none" ]

\* set_current_device clearing gestalt_path for every device it selects.
set_current_device_clearing(devs, index) ==
    IF index = NoneIndex
    THEN [ current_device |-> NoneDevice,
           device_available |-> FALSE,
           gestalt_path |-> None,
           current_device_index |-> 0,
           raised |-> "none" ]
    ELSE IF index + 1 > Len(devs)
    THEN [ Selection EXCEPT !.raised = IndexErrorName ]
    ELSE [ current_device |-> devs[index + 1],
           device_available |-> ~VersionLess(devs[index + 1].version, min_version),
           gestalt_path |-> None,
           current_device_index |-> index,
           raised |-> "none" ]

set_current_device(devs, index) ==
    IF index = NoneIndex
    THEN [ current_device |-> NoneDevice,
           device_available |-> FALSE,
           gestalt_path |-> None,
           current_device_index |-> 0,
           raised |-> "none" ]
    ELSE IF index + 1 > Len(devs)
    THEN [ Selection EXCEPT !.raised = IndexErrorName ]
    ELSE IF VersionLess(devs[index + 1].version, min_version)
    THEN [ current_device |-> devs[index + 1],
           device_available |-> FALSE,
           gestalt_path |-> None,
           current_device_index |-> index,
           raised |-> "none" ]
    ELSE [ current_device |-> devs[index + 1],
           device_available |-> TRUE,
           gestalt_path |-> gestalt_path,
           current_device_index |-> index,
           raised |-> "none" ]

\* The loop of get_devices over the first n discovered devices: the registry
\* and the notices of the devices whose session did not open.
RECURSIVE Opened(_, _, _)
Opened(connected, wifi, n) ==
    IF n = 0 THEN << >>
    ELSE LET d == connected[n]
             before == Opened(connected, wifi, n - 1)
         IN IF (wifi \/ d.is_usb) /\ d.opens
            THEN Append(before, Device(d.serial))
            ELSE before

RECURSIVE Notices(_, _, _)
Notices(connected, wifi, n) ==
    IF n = 0 THEN << >>
    ELSE LET d == connected[n]
             before == Notices(connected, wifi, n - 1)
         IN IF (wifi \/ d.is_usb) /\ ~d.opens
            THEN Append(before, [uuid |-> d.serial, txt |-> SessionErrorName])
            ELSE before

\* The restore log of a call that is neither apply_changes nor
\* reset_mobilegestalt.
NoMerge == [ resetting |-> FALSE, flag_plist |-> << >>, has_gestalt |-> FALSE,
             gestalt_plist |-> << >>, eligibility_files |-> << >> ]

\* A discovered device as the log keeps it: what list_devices() said of it and
\* what became of create_using_usbmux(serial=...), if it was called at all.
Seen(d, wifi) ==
    [ serial |-> d.serial, is_usb |-> d.is_usb,
      session |-> IF ~(wifi \/ d.is_usb) THEN "not opened"
                  ELSE IF d.opens THEN "opened" ELSE "failed" ]

NoRestoreLog ==
    /\ labels' = << >>
    /\ invoked' = << >>
    /\ merged' = NoMerge
    /\ files_to_restore' = << >>
    /\ restore_calls' = << >>
    /\ dialogs' = << >>

get_devices(connected) ==
    LET devs == Opened(connected, apply_over_wifi, Len(connected))
        sel == IF Len(connected) > 0
               THEN set_current_device(devs, 0)
               ELSE set_current_device(devs, NoneIndex)
    IN /\ devices' = devs
       /\ current_device' = sel.current_device
       /\ device_available' = sel.device_available
       /\ gestalt_path' = sel.gestalt_path
       /\ current_device_index' = sel.current_device_index
       /\ raised' = sel.raised
       /\ last_call' = "get_devices"
       /\ connected_devices' = [i \in 1 .. Len(connected) |-> Seen(connected[i], apply_over_wifi)]
       /\ error_msgs' = Notices(connected, apply_over_wifi, Len(connected))
       /\ NoRestoreLog
       /\ UNCHANGED << apply_over_wifi, tweaks >>

\* select(index): the caller picks an entry of the registry, or None.
SelectDevice(index) ==
    LET sel == set_current_device(devices, index)
    IN /\ current_device' = sel.current_device
       /\ device_available' = sel.device_available
       /\ gestalt_path' = sel.gestalt_path
       /\ current_device_index' = sel.current_device_index
       /\ raised' = sel.raised
       /\ last_call' = "set_current_device"
       /\ connected_devices' = << >>
       /\ error_msgs' = << >>
       /\ NoRestoreLog
       /\ UNCHANGED << devices, apply_over_wifi, tweaks >>

-----------------------------------------------------------------------------
(* The callers' writes of the public fields: the file chooser stores the   *)
(* path of the base configuration document (or clears it), the settings    *)
(* page sets the Wi-Fi policy.                                             *)

GestaltPaths == {"com.apple.MobileGestalt.plist"}

StoreGestaltPath(path) ==
    /\ gestalt_path' = path
    /\ last_call' = "store_gestalt_path"
    /\ raised' = "none"
    /\ connected_devices' = << >>
    /\ error_msgs' = << >>
    /\ NoRestoreLog
    /\ UNCHANGED << devices, current_device_index, apply_over_wifi, current_device,
                    device_available, tweaks >>

SetApplyOverWifi(flag) ==
    /\ apply_over_wifi' = flag
    /\ last_call' = "set_apply_over_wifi"
    /\ raised' = "none"
    /\ connected_devices' = << >>
    /\ error_msgs' = << >>
    /\ NoRestoreLog
    /\ UNCHANGED << devices, current_device_index, current_device, device_available,
                    gestalt_path, tweaks >>

-----------------------------------------------------------------------------
(* The tweak catalog.  A tweak is a FeatureFlagTweak (flag-patch), an       *)
(* EligibilityTweak (file-set, which returns a list of files) or any other *)
(* tweak (document-patch); its name is its key in the ordered dict.        *)

FlagPath == "/var/preferences/FeatureFlags/"

FlagName == "Global.plist"

GestaltRestorePath ==
    "/var/containers/Shared/SystemGroup/systemgroup.com.apple.mobilegestaltcache/Library/Caches/"

GestaltName == "com.apple.MobileGestalt.plist"

FileToRestore(contents, restore_path, restore_name) ==
    [contents |-> contents, restore_path |-> restore_path, restore_name |-> restore_name]

\* The file lists an EligibilityTweak may return: two files of its own, or
\* files of which one is written where the flag document goes.
EligibilityFileLists ==
    { << FileToRestore(<<"eligibility">>, "/var/db/os_eligibility/", "eligibility.plist"),
         FileToRestore(<<"config">>, "/var/db/eligibilityd/", "Config.plist") >>,
      << FileToRestore(<<"domains">>, "/var/db/os_eligibility/", "domains.plist"),
         FileToRestore(<<"flags">>, FlagPath, FlagName) >> }

Tweak ==
    { [kind |-> "FeatureFlagTweak", files |-> << >>],
      [kind |-> "BasicPlistTweak", files |-> << >>] }
    \cup { [kind |-> "EligibilityTweak", files |-> fl] : fl \in EligibilityFileLists }

Catalogs == UNION { [1 .. k -> Tweak] : k \in 0 .. MaxTweaks }

\* One tweak of each variant.
PlainCatalog ==
    << [kind |-> "FeatureFlagTweak", files |-> << >>],
       [kind |-> "BasicPlistTweak", files |-> << >>],
       [kind |-> "EligibilityTweak",
        files |-> << FileToRestore(<<"eligibility">>, "/var/db/os_eligibility/",
                                   "eligibility.plist") >>] >>

TweakNames == << "t1", "t2", "t3", "t4", "t5", "t6" >>

\* tweak.apply_tweak(plist): the document with this tweak's change made to it.
\* A document is the sequence of the changes made to it, oldest first.
ApplyTweak(i, plist) == Append(plist, TweakNames[i])

\* plistlib.load of the file at path, and plistlib.dumps of a document.
LoadPlist(path) == << path >>

Dumps(plist) == << "<plist>" >> \o plist

\* MergeStep without the test that a base document was loaded.
MergeStepUnguarded(m, i) ==
    IF tweaks[i].kind = "FeatureFlagTweak"
    THEN [ m EXCEPT !.flag_plist = ApplyTweak(i, m.flag_plist),
                    !.invoked = Append(m.invoked, i) ]
    ELSE IF tweaks[i].kind = "EligibilityTweak"
    THEN [ m EXCEPT !.eligibility_files = tweaks[i].files,
                    !.invoked = Append(m.invoked, i) ]
    ELSE [ m EXCEPT !.gestalt_plist = ApplyTweak(i, m.gestalt_plist),
                    !.invoked = Append(m.invoked, i) ]

\* One round of the loop over the catalog: tweak i on the merge state m.
MergeStep(m, i) ==
    IF tweaks[i].kind = "FeatureFlagTweak"
    THEN [ m EXCEPT !.flag_plist = ApplyTweak(i, m.flag_plist),
                    !.invoked = Append(m.invoked, i) ]
    ELSE IF tweaks[i].kind = "EligibilityTweak"
    THEN [ m EXCEPT !.eligibility_files = tweaks[i].files,
                    !.invoked = Append(m.invoked, i) ]
    ELSE IF m.has_gestalt
    THEN [ m EXCEPT !.gestalt_plist = ApplyTweak(i, m.gestalt_plist),
                    !.invoked = Append(m.invoked, i) ]
    ELSE m

\* MergeLoop taking the catalog from its last tweak to its first.
RECURSIVE MergeLoopBackwards(_, _)
MergeLoopBackwards(m, n) == IF n = 0 THEN m ELSE MergeLoopBackwards(MergeStep(m, n), n - 1)

RECURSIVE MergeLoop(_, _)
MergeLoop(m, n) == IF n = 0 THEN m ELSE MergeStep(MergeLoop(m, n - 1), n)

\* Merge running the tweak loop whatever resetting is.
MergeAlways(resetting, has_gestalt, gestalt_plist) ==
    MergeLoop([ flag_plist |-> << >>, has_gestalt |-> has_gestalt,
                gestalt_plist |-> gestalt_plist, eligibility_files |-> << >>,
                invoked |-> << >> ], Len(tweaks))

\* Merge starting from the flag document of the call before instead of {}.
MergeCarriedOver(resetting, has_gestalt, gestalt_plist) ==
    LET m0 == [ flag_plist |-> merged.flag_plist, has_gestalt |-> has_gestalt,
                gestalt_plist |-> gestalt_plist, eligibility_files |-> << >>,
                invoked |-> << >> ]
    IN IF resetting THEN m0 ELSE MergeLoop(m0, Len(tweaks))

\* flag_plist, eligibility_files and gestalt_plist before restoring.
Merge(resetting, has_gestalt, gestalt_plist) ==
    LET m0 == [ flag_plist |-> << >>, has_gestalt |-> has_gestalt,
                gestalt_plist |-> gestalt_plist, eligibility_files |-> << >>,
                invoked |-> << >> ]
    IN IF resetting THEN m0 ELSE MergeLoop(m0, Len(tweaks))

\* BuildFiles with the files of the file-set tweak put before the base
\* configuration document.
BuildFilesFilesFirst(m) ==
    << FileToRestore(Dumps(m.flag_plist), FlagPath, FlagName) >>
    \o (IF Len(m.eligibility_files) > 0 THEN m.eligibility_files ELSE << >>)
    \o (IF m.has_gestalt
        THEN << FileToRestore(Dumps(m.gestalt_plist), GestaltRestorePath, GestaltName) >>
        ELSE << >>)

\* files_to_restore of apply_changes.
BuildFiles(m) ==
    << FileToRestore(Dumps(m.flag_plist), FlagPath, FlagName) >>
    \o (IF m.has_gestalt
        THEN << FileToRestore(Dumps(m.gestalt_plist), GestaltRestorePath, GestaltName) >>
        ELSE << >>)
    \o (IF Len(m.eligibility_files) > 0 THEN m.eligibility_files ELSE << >>)

\* ResetFiles with an empty flag document sent along.
ResetFilesWithFlags ==
    << FileToRestore(Dumps(<< >>), FlagPath, FlagName),
       FileToRestore(<< >>, GestaltRestorePath, GestaltName) >>

\* files of reset_mobilegestalt.
ResetFiles == << FileToRestore(<< >>, GestaltRestorePath, GestaltName) >>

-----------------------------------------------------------------------------
(* The restore channel and the handling of its outcome.                    *)

FindMyMarker == << "Find ", "My" >>

MsgTokens == { "Find ", "My" }

Messages == UNION { [1 .. k -> MsgTokens] : k \in 0 .. MaxMsgLen }

ErrorKinds == { "PyMobileDevice3Exception", "ConnectionAbortedError" }

ChannelOk == [ok |-> TRUE, kind |-> "", msg |-> << >>]

ChannelOutcomes ==
    { ChannelOk } \cup [ok : {FALSE}, kind : ErrorKinds, msg : Messages]

\* Success, one error of each class.
PlainOutcomes ==
    { ChannelOk,
      [ok |-> FALSE, kind |-> "PyMobileDevice3Exception", msg |-> << "Find ", "My" >>],
      [ok |-> FALSE, kind |-> "ConnectionAbortedError", msg |-> << "My" >>] }

\* Success, one error.
SuccessOrFailure ==
    { ChannelOk, [ok |-> FALSE, kind |-> "ConnectionAbortedError", msg |-> << "My" >>] }

\* self.data_singleton.current_device.ld with current_device None
AttributeError ==
    [ok |-> FALSE, kind |-> "AttributeError", msg |-> << "'NoneType' object has no attribute 'ld'" >>]

\* "Find My" in str(e)
Contains(msg, marker) ==
    \E i \in 0 .. Len(msg) - Len(marker) :
        \A j \in 1 .. Len(marker) : msg[i + j] = marker[j]

SuccessBox ==
    [icon |-> "Information", title |-> "Success!",
     text |-> "All done! Your device will now restart."]

FindMyBox ==
    [icon |-> "Critical", title |-> "Error!",
     text |-> "Find My must be disabled in order to use this tool."]

\* HandleError looking for the marker at the start of the message only.
HandleErrorPrefix(e) ==
    IF Len(e.msg) >= 2 /\ e.msg[1] = FindMyMarker[1] /\ e.msg[2] = FindMyMarker[2]
    THEN [ labels |-> << >>, dialogs |-> << FindMyBox >>, error_msgs |-> << >> ]
    ELSE [ labels |-> << "Failed to restore" >>, dialogs |-> << >>,
           error_msgs |-> << [uuid |-> 0, txt |-> e.kind] >> ]

\* The except clause: the labels, message boxes and error dialogs added for e.
HandleError(e) ==
    IF Contains(e.msg, FindMyMarker)
    THEN [ labels |-> << >>, dialogs |-> << FindMyBox >>, error_msgs |-> << >> ]
    ELSE [ labels |-> << "Failed to restore" >>, dialogs |-> << >>,
           error_msgs |-> << [uuid |-> 0, txt |-> e.kind] >> ]

\* Restore calling the channel a second time when the first call failed.
RestoreRetrying(files, chan, shown) ==
    IF current_device = NoneDevice
    THEN [ restore_calls |-> << >> ] @@ HandleError(AttributeError)
    ELSE LET call == [ files |-> files, reboot |-> TRUE,
                       lockdown_client |-> current_device.ld, result |-> chan,
                       shown |-> shown ]
         IN IF chan.ok
            THEN [ restore_calls |-> << call >>, labels |-> << "Success!" >>,
                   dialogs |-> << SuccessBox >>, error_msgs |-> << >> ]
            ELSE [ restore_calls |-> << call, call >> ] @@ HandleError(chan)

\* The try block: restore_files(...) is reached only when the argument
\* current_device.ld can be evaluated; chan is what the channel then does, and
\* shown is the number of update_label calls made before it.
Restore(files, chan, shown) ==
    IF current_device = NoneDevice
    THEN [ restore_calls |-> << >> ] @@ HandleError(AttributeError)
    ELSE LET call == [ files |-> files, reboot |-> TRUE,
                       lockdown_client |-> current_device.ld, result |-> chan,
                       shown |-> shown ]
         IN IF chan.ok
            THEN [ restore_calls |-> << call >>, labels |-> << "Success!" >>,
                   dialogs |-> << SuccessBox >>, error_msgs |-> << >> ]
            ELSE [ restore_calls |-> << call >> ] @@ HandleError(chan)

LoadErrorName == "FileNotFoundError"

apply_changes(resetting, load_ok, chan) ==
    LET has_gestalt == gestalt_path /= None
        m == Merge(resetting, has_gestalt,
                   IF has_gestalt THEN LoadPlist(gestalt_path) ELSE << >>)
        files == BuildFiles(m)
        r == Restore(files, chan, 3)
    IN /\ last_call' = "apply_changes"
       /\ connected_devices' = << >>
       /\ IF has_gestalt /\ ~load_ok
          THEN /\ raised' = LoadErrorName
               /\ labels' = << "Applying changes to files..." >>
               /\ invoked' = << >>
               /\ merged' = NoMerge
               /\ files_to_restore' = << >>
               /\ restore_calls' = << >>
               /\ dialogs' = << >>
               /\ error_msgs' = << >>
          ELSE /\ raised' = "none"
               /\ labels' = << "Applying changes to files...", "Generating backup...",
                               "Restoring to device..." >> \o r.labels
               /\ invoked' = m.invoked
               /\ merged' = [ resetting |-> resetting,
                              flag_plist |-> m.flag_plist, has_gestalt |-> m.has_gestalt,
                              gestalt_plist |-> m.gestalt_plist,
                              eligibility_files |-> m.eligibility_files ]
               /\ files_to_restore' = files
               /\ restore_calls' = r.restore_calls
               /\ dialogs' = r.dialogs
               /\ error_msgs' = r.error_msgs
       /\ UNCHANGED << devices, current_device_index, apply_over_wifi, current_device,
                       device_available, gestalt_path, tweaks >>

reset_mobilegestalt(chan) ==
    LET r == Restore(ResetFiles, chan, 1)
    IN /\ last_call' = "reset_mobilegestalt"
       /\ raised' = "none"
       /\ connected_devices' = << >>
       /\ labels' = << "Restoring to device..." >> \o r.labels
       /\ invoked' = << >>
       /\ merged' = NoMerge
       /\ files_to_restore' = ResetFiles
       /\ restore_calls' = r.restore_calls
       /\ dialogs' = r.dialogs
       /\ error_msgs' = r.error_msgs
       /\ UNCHANGED << devices, current_device_index, apply_over_wifi, current_device,
                       device_available, gestalt_path, tweaks >>

-----------------------------------------------------------------------------
(* The program, under three ranges of its inputs.  Spec explores the       *)
(* registry: every discovery result of up to MaxDevices devices and both   *)
(* Wi-Fi policies, with one catalog and a restore channel that succeeds.   *)
(* SpecApply explores the merge: every catalog of up to MaxTweaks tweaks,  *)
(* with one device at a time and three outcomes of the channel.            *)
(* SpecRestore explores the restore channel: every error message of up to  *)
(* MaxMsgLen tokens, with one device at a time and one catalog.            *)

\* Nothing was called before the handler that ran last.
NoCall ==
    [ call |-> "none", raised |-> "none", resetting |-> FALSE, gestalt_path |-> None,
      succeeded |-> FALSE, files |-> << >> ]

\* The handler that ran last, as the next one finds it behind itself.
Logged ==
    previous' = [ call |-> last_call, raised |-> raised, resetting |-> merged.resetting,
                  gestalt_path |-> gestalt_path,
                  succeeded |-> (dialogs = << SuccessBox >>),
                  files |-> files_to_restore ]

\* DeviceManager.__init__ and the DataSingleton it creates.
InitManager ==
    /\ devices = << >>
    /\ current_device_index = 0
    /\ apply_over_wifi = TRUE
    /\ current_device = NoneDevice
    /\ device_available = FALSE
    /\ gestalt_path = None
    /\ last_call = "__init__"
    /\ raised = "none"
    /\ connected_devices = << >>
    /\ error_msgs = << >>
    /\ labels = << >>
    /\ invoked = << >>
    /\ merged = NoMerge
    /\ files_to_restore = << >>
    /\ restore_calls = << >>
    /\ dialogs = << >>
    /\ previous = NoCall

Init == InitManager /\ tweaks = PlainCatalog

InitApply == InitManager /\ tweaks \in Catalogs

Refresh == (\E connected \in Discovery : get_devices(connected)) /\ UNCHANGED previous

RefreshSingle ==
    (\E connected \in SingleDiscovery : get_devices(connected)) /\ UNCHANGED previous

RefreshOpened ==
    (\E connected \in OpenedDiscovery : get_devices(connected)) /\ UNCHANGED previous

Select ==
    /\ \E index \in {NoneIndex} \cup (0 .. Len(devices) - 1) : SelectDevice(index)
    /\ UNCHANGED previous

Store == (\E path \in GestaltPaths \cup {None} : StoreGestaltPath(path)) /\ UNCHANGED previous

SetWifi == (\E flag \in BOOLEAN : SetApplyOverWifi(flag)) /\ UNCHANGED previous

Apply ==
    /\ \E resetting \in BOOLEAN, load_ok \in BOOLEAN, chan \in PlainOutcomes :
          apply_changes(resetting, load_ok, chan)
    /\ UNCHANGED previous

Reset == (\E chan \in PlainOutcomes : reset_mobilegestalt(chan)) /\ UNCHANGED previous

ApplyOk ==
    /\ \E resetting \in BOOLEAN, load_ok \in BOOLEAN :
          apply_changes(resetting, load_ok, ChannelOk)
    /\ UNCHANGED previous

ResetOk == reset_mobilegestalt(ChannelOk) /\ UNCHANGED previous

ApplyAny ==
    /\ \E resetting \in BOOLEAN, load_ok \in BOOLEAN, chan \in ChannelOutcomes :
          apply_changes(resetting, load_ok, chan)
    /\ UNCHANGED previous

ResetAny == (\E chan \in ChannelOutcomes : reset_mobilegestalt(chan)) /\ UNCHANGED previous

\* The same calls, each leaving behind what the call before it did.
RefreshAgain == (\E connected \in SingleDiscovery : get_devices(connected)) /\ Logged

StoreAgain == (\E path \in GestaltPaths \cup {None} : StoreGestaltPath(path)) /\ Logged

ApplyAgain ==
    /\ \E resetting \in BOOLEAN, load_ok \in BOOLEAN, chan \in SuccessOrFailure :
          apply_changes(resetting, load_ok, chan)
    /\ Logged

Next == Refresh \/ Select \/ Store \/ SetWifi \/ ApplyOk \/ ResetOk

NextApply == RefreshSingle \/ Select \/ Store \/ Apply \/ Reset

NextRestore == RefreshSingle \/ Select \/ Store \/ ApplyAny \/ ResetAny

NextRepeat == RefreshAgain \/ StoreAgain \/ ApplyAgain

NextSelect == RefreshOpened \/ Select \/ Store \/ ApplyOk

Spec == Init /\ [][Next]_vars

SpecApply == InitApply /\ [][NextApply]_vars

SpecRestore == Init /\ [][NextRestore]_vars

SpecRepeat == InitApply /\ [][NextRepeat]_vars

SpecSelect == Init /\ [][NextSelect]_vars

-----------------------------------------------------------------------------
(* Properties of the registry, checked under Spec.                         *)

RECURSIVE SelectOpened(_, _)
SelectOpened(seen, n) ==
    IF n = 0 THEN << >>
    ELSE IF seen[n].session = "opened"
         THEN Append(SelectOpened(seen, n - 1), seen[n].serial)
         ELSE SelectOpened(seen, n - 1)

NoticesOf(serial) == { i \in 1 .. Len(error_msgs) : error_msgs[i].uuid = serial }

RegistryIsOpenedDevices ==
    /\ Len(devices) = Len(SelectOpened(connected_devices, Len(connected_devices)))
    /\ \A i \in 1 .. Len(devices) :
         devices[i].uuid = SelectOpened(connected_devices, Len(connected_devices))[i]
    /\ \A i \in 1 .. Len(connected_devices) :
         /\ connected_devices[i].session = "opened"
              => apply_over_wifi \/ connected_devices[i].is_usb
         /\ connected_devices[i].session = "not opened"
              => ~(apply_over_wifi \/ connected_devices[i].is_usb)
         /\ Cardinality(NoticesOf(connected_devices[i].serial))
              = (IF connected_devices[i].session = "failed" THEN 1 ELSE 0)

\* C1: whatever was discovered and whichever sessions failed, get_devices
\* returns without raising, the registry is then the devices that are
\* USB-attached or permitted over Wi-Fi and whose session opened, in discovery
\* order, and each failing device has exactly one notice.
C1_RefreshNeverRaises ==
    last_call = "get_devices" => raised = "none" /\ RegistryIsOpenedDevices

Eligible(device) == device /= NoneDevice /\ ~VersionLess(device.version, <<17>>)

SelectionCleared ==
    current_device = NoneDevice /\ ~device_available /\ gestalt_path = None

\* C2: after get_devices the current device is the registry's entry 0 when
\* the registry is not empty, and the selection is cleared when it is empty.
C2_CurrentIsFirstOpened ==
    last_call = "get_devices" =>
        IF Len(devices) > 0
        THEN current_device = devices[1] /\ current_device_index = 0
        ELSE SelectionCleared

\* C3: at the end of every get_devices or set_current_device call,
\* device_available says that a device is selected whose version is at least
\* 17, and gestalt_path is None when no device is selected or it is not
\* eligible.
C3_EligibilityRecomputed ==
    last_call \in {"get_devices", "set_current_device"} =>
        /\ device_available <=> Eligible(current_device)
        /\ ~Eligible(current_device) => gestalt_path = None

-----------------------------------------------------------------------------
(* Properties of the transaction, checked under SpecApply.                 *)

Applied == last_call = "apply_changes" /\ raised = "none"

AtFlagDestination(file) ==
    /\ file.restore_path = "/var/preferences/FeatureFlags/"
    /\ file.restore_name = "Global.plist"

AtGestaltDestination(file) ==
    /\ file.restore_path =
         "/var/containers/Shared/SystemGroup/systemgroup.com.apple.mobilegestaltcache/Library/Caches/"
    /\ file.restore_name = "com.apple.MobileGestalt.plist"

\* C4: while the current device's version is below 17, device_available is
\* false and the transaction apply_changes built holds no payload at the
\* base-configuration destination.
C4_NoGestaltForIneligible ==
    (current_device /= NoneDevice /\ ~Eligible(current_device)) =>
        /\ ~device_available
        /\ last_call = "apply_changes" =>
             \A i \in 1 .. Len(files_to_restore) : ~AtGestaltDestination(files_to_restore[i])

EmptyGestaltPayload(file) == AtGestaltDestination(file) /\ file.contents = << >>

\* C5 as stated: reset_mobilegestalt always submits one transaction, of the
\* one empty payload at the base-configuration destination.
C5_ResetAlwaysSubmits ==
    last_call = "reset_mobilegestalt" =>
        /\ Len(restore_calls) = 1
        /\ Len(restore_calls[1].files) = 1
        /\ EmptyGestaltPayload(restore_calls[1].files[1])

\* C5 as amended: reset_mobilegestalt always builds a transaction of exactly
\* one payload, empty content at the base-configuration destination and no
\* flag payload; with a device selected it submits exactly that transaction,
\* once, and with no device selected it submits nothing.
C5_ResetBuildsOnePayload ==
    last_call = "reset_mobilegestalt" =>
        /\ Len(files_to_restore) = 1
        /\ EmptyGestaltPayload(files_to_restore[1])
        /\ ~AtFlagDestination(files_to_restore[1])
        /\ IF current_device = NoneDevice
           THEN restore_calls = << >>
           ELSE /\ Len(restore_calls) = 1
                /\ restore_calls[1].files = files_to_restore

C5_Witness ==
    /\ last_call = "reset_mobilegestalt"
    /\ Len(restore_calls) = 1
    /\ gestalt_path /= None
    /\ Len(tweaks) > 1

KindAt(i) == tweaks[i].kind

InvokedTimes(i) == Cardinality({ k \in 1 .. Len(invoked) : invoked[k] = i })

FlagPayloadFirst ==
    /\ Len(files_to_restore) >= 1
    /\ AtFlagDestination(files_to_restore[1])
    /\ files_to_restore[1].contents = << "<plist>" >> \o merged.flag_plist

\* C6 as stated: apply_changes without a base document invokes no
\* document-patch tweak, invokes every flag-patch tweak, and puts the flag
\* document in the transaction.
C6_FlagTweaksAlwaysRun ==
    (Applied /\ ~merged.has_gestalt) =>
        /\ \A i \in 1 .. Len(tweaks) :
             /\ KindAt(i) = "BasicPlistTweak" => InvokedTimes(i) = 0
             /\ KindAt(i) = "FeatureFlagTweak" => InvokedTimes(i) = 1
        /\ FlagPayloadFirst

\* C6 as amended: apply_changes without a base document invokes no
\* document-patch tweak; it invokes every flag-patch tweak unless it was
\* called with resetting=True, when it invokes no tweak at all; and the
\* transaction holds the flag document at
\* /var/preferences/FeatureFlags/Global.plist, also when it is empty.
C6_FlagTweaksRunUnlessResetting ==
    (Applied /\ ~merged.has_gestalt) =>
        /\ \A i \in 1 .. Len(tweaks) :
             /\ KindAt(i) = "BasicPlistTweak" => InvokedTimes(i) = 0
             /\ KindAt(i) = "FeatureFlagTweak" =>
                  InvokedTimes(i) = (IF merged.resetting THEN 0 ELSE 1)
        /\ merged.resetting => invoked = << >>
        /\ FlagPayloadFirst

C6_Witness ==
    /\ Applied /\ ~merged.has_gestalt /\ ~merged.resetting
    /\ \E i, j \in 1 .. Len(tweaks) :
         KindAt(i) = "BasicPlistTweak" /\ KindAt(j) = "FeatureFlagTweak"
    /\ Len(invoked) > 0

\* The file lists of the file-set tweaks among the first n of the catalog,
\* one after the other.
RECURSIVE Produced(_)
Produced(n) ==
    IF n = 0 THEN << >>
    ELSE IF KindAt(n) = "EligibilityTweak"
         THEN Produced(n - 1) \o tweaks[n].files
         ELSE Produced(n - 1)

\* s[i ..] can be found in t[j ..] in the same order.
RECURSIVE SubSeqFrom(_, _, _, _)
SubSeqFrom(s, i, t, j) ==
    IF i > Len(s) THEN TRUE
    ELSE IF j > Len(t) THEN FALSE
    ELSE IF s[i] = t[j] THEN SubSeqFrom(s, i + 1, t, j + 1)
    ELSE SubSeqFrom(s, i, t, j + 1)

DocumentPayloads == IF merged.has_gestalt THEN 2 ELSE 1

\* C7: in the transaction of apply_changes the flag document comes first,
\* the base configuration document comes second exactly when there is one,
\* and all that follows are payloads of file-set tweaks, in producer order.
C7_PayloadOrder ==
    Applied =>
        /\ FlagPayloadFirst
        /\ Len(files_to_restore) >= DocumentPayloads
        /\ merged.has_gestalt =>
             /\ AtGestaltDestination(files_to_restore[2])
             /\ files_to_restore[2].contents = << "<plist>" >> \o merged.gestalt_plist
        /\ \A i \in 2 .. Len(files_to_restore) :
             AtGestaltDestination(files_to_restore[i]) => (i = 2 /\ merged.has_gestalt)
        /\ SubSeqFrom(files_to_restore, DocumentPayloads + 1, Produced(Len(tweaks)), 1)

C7_Witness ==
    /\ Applied /\ merged.has_gestalt
    /\ Len(files_to_restore) = 4
    /\ Len(Produced(Len(tweaks))) > 2

Destination(file) == << file.restore_path, file.restore_name >>

\* C8: no transaction of apply_changes or reset_mobilegestalt holds two
\* payloads with the same destination.
C8_DistinctDestinations ==
    last_call \in {"apply_changes", "reset_mobilegestalt"} =>
        \A i, j \in 1 .. Len(files_to_restore) :
            i /= j => Destination(files_to_restore[i]) /= Destination(files_to_restore[j])

\* The names of the tweaks of one kind among the first n of the catalog.
RECURSIVE NamesOfKind(_, _)
NamesOfKind(kind, n) ==
    IF n = 0 THEN << >>
    ELSE IF KindAt(n) = kind
         THEN Append(NamesOfKind(kind, n - 1), TweakNames[n])
         ELSE NamesOfKind(kind, n - 1)

InvokedInCatalogOrder ==
    \A k \in 1 .. Len(invoked) - 1 : invoked[k] < invoked[k + 1]

\* C9 as stated: apply_changes with a base document applies each tweak at
\* most once, in catalog order; the flag document is the fold of all
\* flag-patch tweaks from the empty document and the base document the fold
\* of all document-patch tweaks from the loaded one.
C9_SequentialFold ==
    (Applied /\ merged.has_gestalt) =>
        /\ InvokedInCatalogOrder
        /\ merged.flag_plist = NamesOfKind("FeatureFlagTweak", Len(tweaks))
        /\ merged.gestalt_plist
             = << gestalt_path >> \o NamesOfKind("BasicPlistTweak", Len(tweaks))

\* C9 as amended: the same, for apply_changes called with resetting=False;
\* called with resetting=True it applies no tweak, the flag document is empty
\* and the base document is the loaded one.
C9_SequentialFoldUnlessResetting ==
    (Applied /\ merged.has_gestalt) =>
        /\ InvokedInCatalogOrder
        /\ ~merged.resetting =>
             /\ merged.flag_plist = NamesOfKind("FeatureFlagTweak", Len(tweaks))
             /\ merged.gestalt_plist
                  = << gestalt_path >> \o NamesOfKind("BasicPlistTweak", Len(tweaks))
        /\ merged.resetting =>
             /\ invoked = << >>
             /\ merged.flag_plist = << >>
             /\ merged.gestalt_plist = << gestalt_path >>

C9_Witness ==
    /\ Applied /\ merged.has_gestalt /\ ~merged.resetting
    /\ Len(merged.flag_plist) = 2
    /\ Len(merged.gestalt_plist) = 2

-----------------------------------------------------------------------------
(* Properties of the restore channel's failures, checked under SpecRestore.*)

ChannelFailed ==
    /\ last_call \in {"apply_changes", "reset_mobilegestalt"}
    /\ Len(restore_calls) = 1
    /\ ~restore_calls[1].result.ok

HasFindMy(msg) == \E i \in 1 .. Len(msg) - 1 : msg[i] = "Find " /\ msg[i + 1] = "My"

FindMyEnabledError(box) ==
    /\ box.icon = "Critical"
    /\ box.text = "Find My must be disabled in order to use this tool."

\* C10: in apply_changes and reset_mobilegestalt a failure of the restore
\* channel whose message contains "Find My" is reported as the Find My error,
\* whatever else the message holds and whatever the error's type; any other
\* failure is reported as an unknown error, by the name of its type; and each
\* failure is reported exactly once.
C10_FailureClassification ==
    ChannelFailed =>
        IF HasFindMy(restore_calls[1].result.msg)
        THEN /\ Len(dialogs) = 1 /\ FindMyEnabledError(dialogs[1])
             /\ error_msgs = << >>
        ELSE /\ dialogs = << >>
             /\ Len(error_msgs) = 1
             /\ error_msgs[1].txt = restore_calls[1].result.kind

C10_Witness ==
    /\ ChannelFailed
    /\ last_call = "reset_mobilegestalt"
    /\ restore_calls[1].result.msg = << "My", "Find ", "My" >>
    /\ restore_calls[1].result.kind = "ConnectionAbortedError"
    /\ Len(dialogs) = 1

-----------------------------------------------------------------------------
(* Properties of the orchestration, checked under SpecRestore.             *)

Restoring == last_call \in {"apply_changes", "reset_mobilegestalt"}

\* C11: an apply_changes or reset_mobilegestalt call calls restore_files at
\* most once, with reboot=True and the lockdown client of the current device,
\* and not a second time after a failure of either class.
C11_ChannelCalledAtMostOnce ==
    Restoring =>
        /\ Len(restore_calls) <= 1
        /\ \A k \in 1 .. Len(restore_calls) :
             /\ restore_calls[k].reboot
             /\ current_device /= NoneDevice
             /\ restore_calls[k].lockdown_client = current_device.ld

C11_Witness ==
    /\ ChannelFailed
    /\ last_call = "apply_changes"
    /\ ~HasFindMy(restore_calls[1].result.msg)
    /\ restore_calls[1].lockdown_client = 2

ProgressLabels ==
    << "Applying changes to files...", "Generating backup...", "Restoring to device..." >>

TimesShown(label) == Cardinality({ k \in 1 .. Len(labels) : labels[k] = label })

\* C12: every apply_changes call shows the three progress labels once each,
\* in their order and before restore_files is called, and shows "Success!"
\* only after the three and after the channel returned success.
C12_ProgressOrder ==
    last_call = "apply_changes" =>
        /\ Len(labels) >= 3
        /\ \A k \in 1 .. 3 : labels[k] = ProgressLabels[k] /\ TimesShown(ProgressLabels[k]) = 1
        /\ \A k \in 1 .. Len(restore_calls) : restore_calls[k].shown = 3
        /\ \A k \in 1 .. Len(labels) :
             labels[k] = "Success!" =>
                 /\ k > 3
                 /\ Len(restore_calls) = 1
                 /\ restore_calls[1].result.ok

ReachedSuccess == Len(dialogs) = 1 /\ dialogs[1] = SuccessBox /\ labels[Len(labels)] = "Success!"

ReachedFailed ==
    \/ Len(dialogs) = 1 /\ FindMyEnabledError(dialogs[1])
    \/ Len(error_msgs) = 1

\* C13: every apply_changes call passes Applying, GeneratingBackup and
\* Restoring once each, in that order, and ends in exactly one of Success and
\* Failed, whatever loading the base document and the channel do.
C13_EndsInSuccessOrFailed ==
    last_call = "apply_changes" =>
        /\ raised = "none"
        /\ Len(labels) >= 3
        /\ \A k \in 1 .. 3 : labels[k] = ProgressLabels[k] /\ TimesShown(ProgressLabels[k]) = 1
        /\ ReachedSuccess /= ReachedFailed

-----------------------------------------------------------------------------
(* Properties of repeated calls, checked under SpecRepeat.                 *)

Built == last_call = "apply_changes" /\ raised = "none"

BuiltBefore == previous.call = "apply_changes" /\ previous.raised = "none"

SameInputs == previous.resetting = merged.resetting /\ previous.gestalt_path = gestalt_path

\* C14: an apply_changes call that follows another apply_changes call with
\* the same catalog, the same stored base document and the same resetting
\* builds the same payload list, whether the first call succeeded or failed.
C14_SameInputsSameFiles ==
    (Built /\ BuiltBefore /\ SameInputs) => files_to_restore = previous.files

C14_Witness ==
    /\ Built /\ BuiltBefore /\ SameInputs
    /\ ~previous.succeeded
    /\ dialogs = << SuccessBox >>
    /\ ~merged.resetting
    /\ gestalt_path /= None
    /\ Len(files_to_restore) >= 3
    /\ Len(merged.flag_plist) >= 1

-----------------------------------------------------------------------------
(* Properties of the file-set payloads and of resetting, checked under     *)
(* SpecApply.                                                              *)

FileSetPayloads ==
    SubSeq(files_to_restore, DocumentPayloads + 1, Len(files_to_restore))

\* C15: after the document payloads the transaction of apply_changes holds
\* the file lists of all file-set tweaks of the catalog, one after the other
\* in catalog order, none of their files missing.
C15_AllFileSetsIncluded ==
    Applied =>
        FileSetPayloads = (IF merged.resetting THEN << >> ELSE Produced(Len(tweaks)))

\* C16: apply_changes(resetting=True) calls no tweak, leaves the flag
\* document empty, passes the base document on as it was loaded when there is
\* one, and adds no file-set payload.
C16_ResettingSkipsTweaks ==
    (Applied /\ merged.resetting) =>
        /\ invoked = << >>
        /\ merged.flag_plist = << >>
        /\ FlagPayloadFirst
        /\ files_to_restore[1].contents = Dumps(<< >>)
        /\ merged.has_gestalt = (gestalt_path /= None)
        /\ merged.has_gestalt =>
             /\ merged.gestalt_plist = LoadPlist(gestalt_path)
             /\ AtGestaltDestination(files_to_restore[2])
             /\ files_to_restore[2].contents = Dumps(LoadPlist(gestalt_path))
        /\ merged.eligibility_files = << >>
        /\ Len(files_to_restore) = DocumentPayloads

C16_Witness ==
    /\ Applied /\ merged.resetting /\ merged.has_gestalt
    /\ Len(files_to_restore) = 2
    /\ \E i, j, k \in 1 .. Len(tweaks) :
         /\ KindAt(i) = "FeatureFlagTweak"
         /\ KindAt(j) = "BasicPlistTweak"
         /\ KindAt(k) = "EligibilityTweak"

-----------------------------------------------------------------------------
(* Properties of failure reporting, checked under SpecRestore.             *)

LastLabel == labels[Len(labels)]

\* C17: when restore_files fails in apply_changes or reset_mobilegestalt,
\* with an error of either class, the last label shown is "Failed to
\* restore", not "Restoring to device...", and "Success!" is never shown.
C17_FailureLabelLast ==
    ChannelFailed =>
        /\ LastLabel = "Failed to restore"
        /\ LastLabel /= "Restoring to device..."
        /\ TimesShown("Success!") = 0

NoDeviceSelected == Restoring /\ current_device = NoneDevice

\* C20: apply_changes or reset_mobilegestalt with no device selected does
\* not call restore_files, does not report success, and returns after the
\* unknown-error report with the label "Failed to restore" instead of raising.
C20_NoDeviceIsReportedFailure ==
    NoDeviceSelected =>
        /\ restore_calls = << >>
        /\ TimesShown("Success!") = 0
        /\ dialogs = << >>
        /\ raised = "none"
        /\ LastLabel = "Failed to restore"
        /\ Len(error_msgs) = 1
        /\ error_msgs[1].txt = AttributeError.kind

-----------------------------------------------------------------------------
(* Properties of the selection, checked under Spec (C18) and, with every   *)
(* discovered device entering the registry, under SpecSelect (C19).        *)

\* C18: after any sequence of get_devices() and set_current_device(index)
\* calls, also those that ended with an error, the current device is None or
\* is the entry of devices at current_device_index.
C18_CurrentIsRegistryEntry ==
    \/ current_device = NoneDevice
    \/ /\ current_device_index + 1 <= Len(devices)
       /\ devices[current_device_index + 1] = current_device

Selected == last_call = "set_current_device" /\ raised = "none"

\* C19: set_current_device(index) of an eligible device leaves gestalt_path
\* as it was, and changes it only to None and only when the device selected
\* is None or ineligible; apply_changes loads the base document from the
\* gestalt_path it finds.
C19_EligibleSelectKeepsGestaltPath ==
    [][ /\ Selected' =>
             /\ Eligible(current_device') => gestalt_path' = gestalt_path
             /\ gestalt_path' /= gestalt_path =>
                  (gestalt_path' = None /\ ~Eligible(current_device'))
        /\ Applied' =>
             /\ gestalt_path' = gestalt_path
             /\ merged'.has_gestalt = (gestalt_path /= None)
             /\ merged'.has_gestalt =>
                  SubSeq(merged'.gestalt_plist, 1, 1) = LoadPlist(gestalt_path)
      ]_vars

C19_Witness ==
    /\ Selected
    /\ current_device_index >= 1
    /\ Eligible(current_device)
    /\ gestalt_path /= None
    /\ \E i \in 1 .. Len(devices) : ~Eligible(devices[i])

====
